---------------------------- MODULE Spec2Model ----------------------------
(***************************************************************************)
(* PassInsight (src/app.py): the /analyze strength scorer with its         *)
(* HaveIBeenPwned range lookup, and the /generate password generator.      *)
(*                                                                         *)
(* Strings are sequences of code points.  Every request is handled by one  *)
(* atomic action (the handlers share no state): a request is received,     *)
(* handled, and its response delivered; then the server is idle again.     *)
(***************************************************************************)
EXTENDS Integers, Sequences, FiniteSets

VARIABLES
    pc,        \* "idle", "received" (a request waits for its handler), "done"
    op,        \* the handler that ran: "analyze" or "generate"
    data,      \* the JSON body of the request
    remote,    \* what the breach service did with the lookup
    rnd,       \* the outputs of the random source
    lookup,    \* what check_pwned_api returned or raised
    resp,      \* the response of the handler
    outbound,  \* the requests sent to third parties while handling
    draws,     \* the number of secrets.choice calls
    prev       \* the hash prefix and the traffic of the request before

vars == <<pc, op, data, remote, rnd, lookup, resp, outbound, draws, prev>>

-----------------------------------------------------------------------------
(* Bounds of the model *)

\* longest password analysed
MaxPwLen == 26
\* most lines in a range-lookup body
MaxLines == 2
\* most lines in a body when two requests in a row are followed
TrafficLines == 0
\* requested generation lengths: -1..LowReqLen and HighReqLen..MaxReqLen
LowReqLen == 13
HighReqLen == 127
MaxReqLen == 130
\* outputs of the random source: (seed + k * step) for the k-th draw
MaxSeed == 2
MaxStep == 1

-----------------------------------------------------------------------------
(* Helpers *)

Min(a, b) == IF a < b THEN a ELSE b

Max(a, b) == IF a > b THEN a ELSE b

Range(s) == {s[i] : i \in DOMAIN s}

\* any(pred(c) for c in s), with the predicate given as the set of code points
AnyIn(s, set) == \E i \in DOMAIN s : s[i] \in set

RECURSIVE Concat(_)
\* ''.join / concatenation of a sequence of strings
Concat(ss) == IF ss = <<>> THEN <<>> ELSE Head(ss) \o Concat(Tail(ss))

-----------------------------------------------------------------------------
(* The string module's alphabets *)

ascii_lowercase == [i \in 1..26 |-> 96 + i]

ascii_uppercase == [i \in 1..26 |-> 64 + i]

digits == [i \in 1..10 |-> 47 + i]

punctuation ==
    <<33, 34, 35, 36, 37, 38, 39, 40, 41, 42, 43, 44, 45, 46, 47,
      58, 59, 60, 61, 62, 63, 64, 91, 92, 93, 94, 95, 96, 123, 124, 125, 126>>

\* c.islower(), c.isupper(), c.isdigit() of one ASCII character,
\* c in string.punctuation
LowerSet == 97..122

UpperSet == 65..90

DigitSet == 48..57

PunctSet == Range(punctuation)

-----------------------------------------------------------------------------
(* hashlib.sha1(password.encode('utf-8')).hexdigest().upper() *)

RECURSIVE Utf8Encode(_)
Utf8Encode(s) ==
    IF s = <<>> THEN <<>>
    ELSE LET c == Head(s)
             b == IF c < 128 THEN <<c>>
                  ELSE IF c < 2048 THEN <<192 + (c \div 64), 128 + (c % 64)>>
                  ELSE <<224 + (c \div 4096), 128 + ((c \div 64) % 64),
                         128 + (c % 64)>>
         IN  b \o Utf8Encode(Tail(s))

\* SHA-1 digests of the messages the model names, as hashlib computes them
KnownDigests ==
    [msg \in {<<>>, <<99, 108, 98, 116, 115>>, <<100, 104, 111, 109, 112>>,
              <<112, 97, 115, 115, 119, 111, 114, 100>>} |->
       CASE msg = <<>> ->
              <<218, 57, 163, 238, 94, 107, 75, 13, 50, 85, 191, 239, 149,
                96, 24, 144, 175, 216, 7, 9>>
         [] msg = <<99, 108, 98, 116, 115>> ->
              <<218, 57, 166, 4, 199, 189, 98, 34, 126, 239, 174, 5, 155,
                214, 222, 25, 95, 244, 181, 69>>
         [] msg = <<100, 104, 111, 109, 112>> ->
              <<218, 57, 162, 64, 155, 128, 90, 204, 0, 238, 60, 46, 144,
                20, 136, 46, 182, 54, 57, 147>>
         [] OTHER ->
              <<91, 170, 97, 228, 201, 185, 63, 63, 6, 130, 37, 11, 108,
                248, 51, 27, 126, 230, 143, 216>>]

RECURSIVE Mix(_, _)
Mix(bytes, acc) ==
    IF bytes = <<>> THEN acc
    ELSE Mix(Tail(bytes), (acc * 31 + Head(bytes) + 1) % 65521)

\* The 20-byte digest.  SHA-1 itself is a library primitive: outside the
\* tabulated messages it is abstracted to a deterministic function of the
\* message whose leading bytes fall into few buckets, so that distinct
\* messages share the 5-digit prefix (as real passwords do) and differ in
\* the remaining digits.
Sha1Digest(bytes) ==
    IF bytes \in DOMAIN KnownDigests THEN KnownDigests[bytes]
    ELSE LET m == Mix(bytes, 7)
         IN  [i \in 1..20 |->
                IF i <= 3 THEN (17 + 89 * (m % 3) + 41 * i) % 256
                ELSE (m * (2 * i + 1) + (m \div 256) + 7 * i) % 256]

HexChar(d) == IF d < 10 THEN 48 + d ELSE 87 + d

\* bytes.hexdigest(): two lowercase hex digits per byte
HexDigest(bytes) ==
    [i \in 1..(2 * Len(bytes)) |->
       LET b == bytes[(i + 1) \div 2]
       IN  HexChar(IF i % 2 = 1 THEN b \div 16 ELSE b % 16)]

\* str.upper() on ASCII
Upper(s) == [i \in DOMAIN s |-> IF s[i] \in 97..122 THEN s[i] - 32 ELSE s[i]]

Sha1Password(password) == Upper(HexDigest(Sha1Digest(Utf8Encode(password))))

HeadOf(password) == SubSeq(Sha1Password(password), 1, 5)

TailOf(password) == SubSeq(Sha1Password(password), 6, 40)

-----------------------------------------------------------------------------
(* Parsing the range-lookup body *)

\* the separators str.splitlines() breaks on
LineBreaks == {10, 11, 12, 13, 28, 29, 30, 133, 8232, 8233}

\* the first position from i on that holds a character of `seps`,
\* or Len(s) + 1
FindNext(s, i, seps) ==
    LET hits == {j \in i..Len(s) : s[j] \in seps}
    IN  IF hits = {} THEN Len(s) + 1
        ELSE CHOOSE j \in hits : \A k \in hits : j <= k

RECURSIVE SplitLinesRec(_, _)
\* the lines of s from position i on; "\r\n" is one line break, and the
\* text after the last line break is a line only when it is not empty
SplitLinesRec(s, i) ==
    IF i > Len(s) THEN <<>>
    ELSE LET j == FindNext(s, i, LineBreaks)
             next == IF j < Len(s) /\ s[j] = 13 /\ s[j + 1] = 10
                     THEN j + 2 ELSE j + 1
         IN  <<SubSeq(s, i, j - 1)>> \o SplitLinesRec(s, next)

\* text.splitlines()
SplitLines(text) == SplitLinesRec(text, 1)

RECURSIVE SplitRec(_, _, _)
SplitRec(s, sep, i) ==
    LET j == FindNext(s, i, {sep})
    IN  IF j > Len(s) THEN <<SubSeq(s, i, Len(s))>>
        ELSE <<SubSeq(s, i, j - 1)>> \o SplitRec(s, sep, j + 1)

\* line.split(':')
Split(s, sep) == SplitRec(s, sep, 1)

\* int(count) accepts an optional sign followed by decimal digits
IsIntLiteral(s) ==
    LET body == IF s # <<>> /\ s[1] \in {43, 45} THEN Tail(s) ELSE s
    IN  body # <<>> /\ \A i \in DOMAIN body : body[i] \in DigitSet

RECURSIVE DigitsValue(_, _)
DigitsValue(s, acc) ==
    IF s = <<>> THEN acc ELSE DigitsValue(Tail(s), 10 * acc + (Head(s) - 48))

ParseInt(s) ==
    IF s[1] = 45 THEN 0 - DigitsValue(Tail(s), 0)
    ELSE IF s[1] = 43 THEN DigitsValue(Tail(s), 0)
    ELSE DigitsValue(s, 0)

-----------------------------------------------------------------------------
(* check_pwned_api *)

NoError == "none"

\* the exceptions requests.get raises; all derive from RequestException
RequestException == {"ConnectionError", "Timeout"}

Returned(found, count) == [exc |-> NoError, found |-> found, count |-> count]

Raised(exc) == [exc |-> exc, found |-> FALSE, count |-> 0]

\* variant: the request carries the whole hash instead of its prefix
PwnedRequestFullHash(password) ==
    [method |-> "GET",
     url |-> <<"https://api.pwnedpasswords.com/range/", Sha1Password(password)>>,
     timeout |-> 5]

\* the one outbound request of a lookup
PwnedRequest(password) ==
    [method |-> "GET",
     url |-> <<"https://api.pwnedpasswords.com/range/", HeadOf(password)>>,
     timeout |-> 5]

RECURSIVE ScanHashes(_, _)
\* for h, count in hashes: unpacking a line that does not split into two
\* fields, and int() of a non-integer count, raise ValueError
ScanHashes(lines, tail) ==
    IF lines = <<>> THEN Returned(FALSE, 0)
    ELSE LET fields == Split(Head(lines), 58)
         IN  IF Len(fields) # 2 THEN Raised("ValueError")
             ELSE IF fields[1] = tail
                  THEN IF IsIntLiteral(fields[2])
                       THEN Returned(TRUE, ParseInt(fields[2]))
                       ELSE Raised("ValueError")
             ELSE ScanHashes(Tail(lines), tail)

\* the body of the try block
PwnedLookup(password, rem) ==
    IF rem.kind # "response" THEN Raised(rem.kind)
    ELSE IF rem.status # 200 THEN Returned(FALSE, 0)
    ELSE ScanHashes(SplitLines(rem.text), TailOf(password))

\* try ... except requests.RequestException: return False, 0
check_pwned_api(password, rem) ==
    LET r == PwnedLookup(password, rem)
    IN  IF r.exc \in RequestException THEN Returned(FALSE, 0) ELSE r

-----------------------------------------------------------------------------
(* calculate_entropy *)

\* variant: digits do not add to the pool
PoolSizeNoDigits(password) ==
      (IF AnyIn(password, LowerSet) THEN 26 ELSE 0)
    + (IF AnyIn(password, UpperSet) THEN 26 ELSE 0)
    + (IF AnyIn(password, PunctSet) THEN Len(punctuation) ELSE 0)

PoolSize(password) ==
      (IF AnyIn(password, LowerSet) THEN 26 ELSE 0)
    + (IF AnyIn(password, UpperSet) THEN 26 ELSE 0)
    + (IF AnyIn(password, DigitSet) THEN 10 ELSE 0)
    + (IF AnyIn(password, PunctSet) THEN Len(punctuation) ELSE 0)

\* math.log2 of the pool sizes that occur, in millionths of a bit
Log2Micro(pool) ==
    CASE pool = 10 -> 3321928 [] pool = 26 -> 4700439 [] pool = 32 -> 5000000
      [] pool = 36 -> 5169925 [] pool = 42 -> 5392317 [] pool = 52 -> 5700439
      [] pool = 58 -> 5857980 [] pool = 62 -> 5954196 [] pool = 68 -> 6087462
      [] pool = 84 -> 6392317 [] pool = 94 -> 6554588

\* the entropy in millionths of a bit
calculate_entropy(password) ==
    LET pool == PoolSize(password)
    IN  IF pool = 0 THEN 0 ELSE Len(password) * Log2Micro(pool)

\* round(entropy, 2), in hundredths of a bit
Round2(entropy) == (entropy + 5000) \div 10000

-----------------------------------------------------------------------------
(* analyze *)

\* data.get('password', '')
GetPassword(d) == IF "password" \in DOMAIN d THEN d.password ELSE <<>>

SuggestLength12 == <<"Increase password length to at least 12 characters.">>

SuggestLonger ==
    <<"Consider making the password even longer (12+ chars) for better security.">>

SuggestLower == <<"Add lowercase letters.">>

SuggestUpper == <<"Add uppercase letters.">>

SuggestDigit == <<"Add numbers.">>

SuggestSymbol == <<"Add special characters (e.g., !@#$%).">>

\* f"DANGER: Password found in {count} data breaches! Do not use this."
BreachWarning(count) ==
    <<"DANGER: Password found in ", count, " data breaches! Do not use this.">>

LengthPoints(n) == IF n < 8 THEN 0 ELSE IF n < 12 THEN 15 ELSE 25

LengthSuggestions(n) ==
    IF n < 8 THEN <<SuggestLength12>>
    ELSE IF n < 12 THEN <<SuggestLonger>> ELSE <<>>

ClassPoints(password, set) == IF AnyIn(password, set) THEN 15 ELSE 0

ClassSuggestions(password, set, text) ==
    IF AnyIn(password, set) THEN <<>> ELSE <<text>>

\* variant: the thresholds are inclusive (>= 80, >= 50)
EntropyBonusInclusive(entropy) ==
    IF entropy >= 80000000 THEN 15 ELSE IF entropy >= 50000000 THEN 5 ELSE 0

EntropyBonus(entropy) ==
    IF entropy > 80000000 THEN 15 ELSE IF entropy > 50000000 THEN 5 ELSE 0

RawScore(password) ==
      LengthPoints(Len(password))
    + ClassPoints(password, LowerSet) + ClassPoints(password, UpperSet)
    + ClassPoints(password, DigitSet) + ClassPoints(password, PunctSet)
    + EntropyBonus(calculate_entropy(password))

\* variant: a breach does not cap the score
FinalScoreUncapped(raw, breached) == Max(0, Min(100, raw))

\* variant: a breach subtracts from the score, and only the upper end is clamped
FinalScorePenalty(raw, breached) ==
    Min(100, IF breached THEN raw - 80 ELSE raw)

\* the breach cap, then the clamp
FinalScore(raw, breached) ==
    Max(0, Min(100, IF breached THEN Min(raw, 20) ELSE raw))

\* variant: the uppercase check comes before the lowercase check
SuggestionsUpperFirst(password, breached, count) ==
    LET base == LengthSuggestions(Len(password))
                \o ClassSuggestions(password, UpperSet, SuggestUpper)
                \o ClassSuggestions(password, LowerSet, SuggestLower)
                \o ClassSuggestions(password, DigitSet, SuggestDigit)
                \o ClassSuggestions(password, PunctSet, SuggestSymbol)
    IN  IF breached THEN <<BreachWarning(count)>> \o base ELSE base

Suggestions(password, breached, count) ==
    LET base == LengthSuggestions(Len(password))
                \o ClassSuggestions(password, LowerSet, SuggestLower)
                \o ClassSuggestions(password, UpperSet, SuggestUpper)
                \o ClassSuggestions(password, DigitSet, SuggestDigit)
                \o ClassSuggestions(password, PunctSet, SuggestSymbol)
    IN  IF breached THEN <<BreachWarning(count)>> \o base ELSE base

\* variant: the limits are inclusive (<= 40, <= 75)
LevelInclusive(score) ==
    IF score <= 40 THEN "Weak" ELSE IF score <= 75 THEN "Moderate" ELSE "Strong"

Level(score) ==
    IF score < 40 THEN "Weak" ELSE IF score < 75 THEN "Moderate" ELSE "Strong"

EmptyReport ==
    [status |-> 200, score |-> 0, level |-> "Empty", entropy |-> 0,
     breached |-> FALSE, breach_count |-> 0, suggestions |-> <<>>]

\* an exception that escapes the handler: no report is returned
ServerError(exc) == [status |-> 500, exception |-> exc]

\* the response of analyze
AnalyzeResponse(d, rem) ==
    LET password == GetPassword(d)
        chk == check_pwned_api(password, rem)
        score == FinalScore(RawScore(password), chk.found)
    IN  IF password = <<>> THEN EmptyReport
        ELSE IF chk.exc # NoError THEN ServerError(chk.exc)
        ELSE [status |-> 200, score |-> score, level |-> Level(score),
              entropy |-> Round2(calculate_entropy(password)),
              breached |-> chk.found, breach_count |-> chk.count,
              suggestions |-> Suggestions(password, chk.found, chk.count)]

\* the requests analyze sends out
AnalyzeOutbound(d) ==
    LET password == GetPassword(d)
    IN  IF password = <<>> THEN <<>> ELSE <<PwnedRequest(password)>>

-----------------------------------------------------------------------------
(* generate *)

\* data.get(key, default)
Get(d, key, default) == IF key \in DOMAIN d THEN d[key] ELSE default

\* the k-th output of the random source (k = 0, 1, ...)
Rand(r, k) == r.seed + k * r.step

\* secrets.choice(seq) on the k-th draw
Choice(seq, r, k) == seq[(Rand(r, k) % Len(seq)) + 1]

\* x[i], x[j] = x[j], x[i]
Swap(x, i, j) == [x EXCEPT ![i] = x[j], ![j] = x[i]]

\* one step of the shuffle: j = randbelow(i + 1); x[i], x[j] = x[j], x[i]
\* (i counts from 0; the step for i takes draw k0 + (len(x) - 1 - i))
ShuffleStep(x, i, r, k0) ==
    Swap(x, i + 1, (Rand(r, k0 + (Len(x) - 1 - i)) % (i + 1)) + 1)

RECURSIVE ShuffleRange(_, _, _, _, _)
\* the steps for i = hi, hi - 1, ..., lo, in that order
ShuffleRange(x, hi, lo, r, k0) ==
    IF hi < lo THEN x
    ELSE IF hi = lo THEN ShuffleStep(x, hi, r, k0)
    ELSE LET mid == (hi + lo) \div 2
             upper == ShuffleRange(x, hi, mid + 1, r, k0)
         IN  \* (the test makes TLC compute `upper` before it goes on)
             IF upper = <<>> THEN upper
             ELSE ShuffleRange(upper, mid, lo, r, k0)

\* random.SystemRandom().shuffle(x): for i in reversed(range(1, len(x)))
Shuffle(x, r, k0) == ShuffleRange(x, Len(x) - 1, 1, r, k0)

\* length = max(8, min(128, int(data.get('length', 16))))
ClampLength(d) == Max(8, Min(128, Get(d, "length", 16)))

\* the alphabets of the selected classes, in the order the code visits them
SelectedClasses(d) ==
       (IF Get(d, "lowercase", TRUE) THEN <<ascii_lowercase>> ELSE <<>>)
    \o (IF Get(d, "uppercase", TRUE) THEN <<ascii_uppercase>> ELSE <<>>)
    \o (IF Get(d, "numbers", TRUE) THEN <<digits>> ELSE <<>>)
    \o (IF Get(d, "symbols", TRUE) THEN <<punctuation>> ELSE <<>>)

\* not any([use_upper, use_lower, use_numbers, use_symbols])
NoneSelected(d) ==
    ~ (Get(d, "uppercase", TRUE) \/ Get(d, "lowercase", TRUE)
       \/ Get(d, "numbers", TRUE) \/ Get(d, "symbols", TRUE))

\* one secrets.choice per selected class
ReqChars(d, r) ==
    LET classes == SelectedClasses(d)
    IN  [i \in 1..Len(classes) |-> Choice(classes[i], r, i - 1)]

\* variant: the fill draws from all four classes, selected or not
PasswordCharsAnyPool(d, r) ==
    LET length == ClampLength(d)
        pool == ascii_lowercase \o ascii_uppercase \o digits \o punctuation
        req_chars == ReqChars(d, r)
        remaining_length == length - Len(req_chars)
    IN  IF remaining_length < 0 THEN SubSeq(req_chars, 1, length)
        ELSE req_chars
             \o [j \in 1..remaining_length |->
                   Choice(pool, r, Len(req_chars) + j - 1)]

\* password_chars before the shuffle
PasswordChars(d, r) ==
    LET length == ClampLength(d)
        pool == Concat(SelectedClasses(d))
        req_chars == ReqChars(d, r)
        remaining_length == length - Len(req_chars)
    IN  IF remaining_length < 0 THEN SubSeq(req_chars, 1, length)
        ELSE req_chars
             \o [j \in 1..remaining_length |->
                   Choice(pool, r, Len(req_chars) + j - 1)]

\* the number of secrets.choice calls
ChoiceCount(d) ==
    IF NoneSelected(d) THEN 0
    ELSE Max(Len(SelectedClasses(d)), ClampLength(d))

\* variant: the error is returned without the 400 status
GenerateResponseOk(d, r) ==
    IF NoneSelected(d)
    THEN [status |-> 200, error |-> "Select at least one character type"]
    ELSE [status |-> 200,
          password |-> Shuffle(PasswordChars(d, r), r, ChoiceCount(d))]

\* the response of generate
GenerateResponse(d, r) ==
    IF NoneSelected(d)
    THEN [status |-> 400, error |-> "Select at least one character type"]
    ELSE [status |-> 200,
          password |-> Shuffle(PasswordChars(d, r), r, ChoiceCount(d))]

-----------------------------------------------------------------------------
(* Requests and the environment *)

\* the characters passwords are made of: one per class, and a space
PasswordAlphabet == <<97, 90, 55, 33, 32>>

\* the characters of `chars` cycled to length n
Cycle(chars, n) == [i \in 1..n |-> chars[((i - 1) % Len(chars)) + 1]]

RECURSIVE SubSeqs(_)
\* the subsequences of s
SubSeqs(s) ==
    IF s = <<>> THEN {<<>>}
    ELSE LET rest == SubSeqs(Tail(s))
         IN  rest \cup {<<Head(s)>> \o t : t \in rest}

Passwords ==
    {Cycle(c, n) : c \in SubSeqs(PasswordAlphabet) \ {<<>>}, n \in 0..MaxPwLen}
    \cup {<<99, 108, 98, 116, 115>>, <<100, 104, 111, 109, 112>>,
          <<112, 97, 115, 115, 119, 111, 114, 100>>}

\* request bodies of /analyze: no password key, or a password
AnalyzeBodies == {<<>>} \cup {[password |-> p] : p \in Passwords}

NoRemote == [kind |-> "none", status |-> 0, text |-> <<>>]

\* a suffix that differs from `tail` in its last digit
OtherTail(tail) ==
    [i \in DOMAIN tail |->
       IF i = Len(tail) THEN (IF tail[i] = 48 THEN 49 ELSE 48) ELSE tail[i]]

\* lines of a range-lookup body: "TAIL:3", "OTHER:12", "TAIL:x", "TAIL",
\* "TAIL:1:2" and the empty line
BodyLines(tail) ==
    {tail \o <<58, 51>>, OtherTail(tail) \o <<58, 49, 50>>,
     tail \o <<58, 120>>, tail, tail \o <<58, 49, 58, 50>>, <<>>}

RECURSIVE SeqsUpTo(_, _)
SeqsUpTo(S, n) ==
    IF n = 0 THEN {<<>>}
    ELSE LET shorter == SeqsUpTo(S, n - 1)
         IN  shorter \cup {Append(t, x) : t \in shorter, x \in S}

\* the lines joined by "\r\n", as the service sends them
BodyText(lines) ==
    Concat([i \in DOMAIN lines |->
              IF i < Len(lines) THEN lines[i] \o <<13, 10>> ELSE lines[i]])

\* what the breach service can do with the request for `password`:
\* a transport failure, a status other than 200, or a body of at most n lines
Outcomes(password, n) ==
    {[kind |-> k, status |-> 0, text |-> <<>>] : k \in RequestException}
    \cup {[kind |-> "response", status |-> s, text |-> <<>>] : s \in {404, 503}}
    \cup {[kind |-> "response", status |-> 200, text |-> BodyText(ls)] :
            ls \in SeqsUpTo(BodyLines(TailOf(password)), n)}


Flags == {"uppercase", "lowercase", "numbers", "symbols"}

ReqLengths == (-1..LowReqLen) \cup (HighReqLen..MaxReqLen)

\* request bodies of /generate: any of the flags without a length, or the
\* four flags with a length
GenerateBodies ==
    UNION {[keys -> BOOLEAN] : keys \in SUBSET Flags}
    \cup {[k \in Flags \cup {"length"} |-> IF k = "length" THEN n ELSE f[k]] :
            f \in [Flags -> BOOLEAN], n \in ReqLengths}

RandomSources == [seed : 0..MaxSeed, step : 0..MaxStep]

NoRandom == [seed |-> 0, step |-> 0]

NoResponse == [status |-> 0]

NoLookup == [exc |-> "not called", found |-> FALSE, count |-> 0]

NoPrev == [seen |-> FALSE, empty |-> TRUE, head |-> <<>>, traffic |-> <<>>]

-----------------------------------------------------------------------------
(* The server *)

Init ==
    /\ pc = "idle"
    /\ op = "none"
    /\ data = <<>>
    /\ remote = NoRemote
    /\ rnd = NoRandom
    /\ lookup = NoLookup
    /\ resp = NoResponse
    /\ outbound = <<>>
    /\ draws = 0
    /\ prev = NoPrev

\* a request arrives and is routed to its handler
Receive ==
    /\ pc = "idle"
    /\ pc' = "received"
    /\ \/ op' = "analyze" /\ data' \in AnalyzeBodies
       \/ op' = "generate" /\ data' \in GenerateBodies
    /\ UNCHANGED <<remote, rnd, lookup, resp, outbound, draws, prev>>

\* POST /analyze with body d, the breach service behaving as rem
HandleAnalyze(d, rem) ==
    /\ pc' = "done"
    /\ UNCHANGED <<op, data>>
    /\ remote' = IF GetPassword(d) = <<>> THEN NoRemote ELSE rem
    /\ rnd' = NoRandom
    /\ lookup' = IF GetPassword(d) = <<>> THEN NoLookup
                 ELSE check_pwned_api(GetPassword(d), rem)
    /\ resp' = AnalyzeResponse(d, rem)
    /\ outbound' = AnalyzeOutbound(d)
    /\ draws' = 0
    /\ UNCHANGED prev

\* analyze runs; the breach service sends at most n lines
AnalyzeWith(n) ==
    /\ pc = "received"
    /\ op = "analyze"
    /\ \E rem \in Outcomes(GetPassword(data), n) : HandleAnalyze(data, rem)

Analyze == AnalyzeWith(MaxLines)

\* POST /generate with body d, the random source being r
HandleGenerate(d, r) ==
    /\ pc' = "done"
    /\ UNCHANGED <<op, data>>
    /\ remote' = NoRemote
    /\ rnd' = r
    /\ lookup' = NoLookup
    /\ resp' = GenerateResponse(d, r)
    /\ outbound' = <<>>
    /\ draws' = ChoiceCount(d)
    /\ UNCHANGED prev

\* generate runs
Generate ==
    /\ pc = "received"
    /\ op = "generate"
    /\ \E r \in RandomSources : HandleGenerate(data, r)

\* the response is sent and the request's data is dropped
Reset ==
    /\ pc = "done"
    /\ pc' = "idle"
    /\ op' = "none"
    /\ data' = <<>>
    /\ remote' = NoRemote
    /\ rnd' = NoRandom
    /\ lookup' = NoLookup
    /\ resp' = NoResponse
    /\ outbound' = <<>>
    /\ draws' = 0

Deliver == Reset /\ UNCHANGED prev

Next ==
    \/ Receive
    \/ Analyze
    \/ Generate
    \/ Deliver

Spec == Init /\ [][Next]_vars

\* Two requests in a row: prev remembers the hash prefix of the analysed
\* password and the outbound traffic its request caused.
Remember ==
    /\ Reset
    /\ prev' = IF op = "analyze"
               THEN [seen |-> TRUE, empty |-> GetPassword(data) = <<>>,
                     head |-> HeadOf(GetPassword(data)),
                     traffic |-> outbound]
               ELSE prev

NextTraffic ==
    \/ Receive
    \/ AnalyzeWith(TrafficLines)
    \/ Generate
    \/ Remember

SpecTraffic == Init /\ [][NextTraffic]_vars

-----------------------------------------------------------------------------
(* Properties *)

\* the password of the handled request
Pw == GetPassword(data)

Analysed == pc = "done" /\ op = "analyze"

Generated == pc = "done" /\ op = "generate"

ClassSets ==
    [lowercase |-> LowerSet, uppercase |-> UpperSet,
     numbers |-> DigitSet, symbols |-> PunctSet]

\* the classes that occur in the string s
ClassesIn(s) == {k \in Flags : \E i \in DOMAIN s : s[i] \in ClassSets[k]}

\* a line that is not SUFFIX:COUNT with an integer COUNT
MalformedLine(line) ==
    LET colons == {i \in DOMAIN line : line[i] = 58}
    IN  \/ Cardinality(colons) # 1
        \/ ~ IsIntLiteral(SubSeq(line, (CHOOSE i \in colons : TRUE) + 1,
                                 Len(line)))

\* the lookup failed: transport failure, status other than 200, or a body
\* with a malformed line
LookupFailed ==
    \/ remote.kind \in RequestException
    \/ remote.kind = "response" /\ remote.status # 200
    \/ /\ remote.kind = "response"
       /\ remote.status = 200
       /\ \E line \in Range(SplitLines(remote.text)) : MalformedLine(line)

\* C1: check_pwned_api never raises to its caller: whatever the lookup does
\* it returns a result, and the result is (found = false, count = 0) when
\* the lookup failed.
C1_NeverRaises ==
    (Analysed /\ Pw # <<>>) =>
       /\ lookup.exc = NoError
       /\ LookupFailed => (~ lookup.found /\ lookup.count = 0)

\* C2: when the breach check reports found, the score is at most 20 and the
\* first suggestion is the breach warning naming the count.
C2_BreachCap ==
    (Analysed /\ lookup.found) =>
       /\ resp.status = 200
       /\ resp.breached
       /\ resp.breach_count = lookup.count
       /\ resp.score <= 20
       /\ resp.suggestions # <<>>
       /\ Head(resp.suggestions) = BreachWarning(lookup.count)

C2_Witness ==
    /\ Analysed
    /\ lookup.found
    /\ Len(Pw) >= 13
    /\ ClassesIn(Pw) = Flags
    /\ resp.score = 20
    /\ Len(resp.suggestions) = 1

\* C3: the score analyze returns is an integer in 0..100, for every password
\* and every answer of the breach service.
C3_ScoreRange ==
    (Analysed /\ resp.status = 200) => resp.score \in 0..100

C3_Witness ==
    /\ Analysed
    /\ resp.status = 200
    /\ resp.score = 100
    /\ remote.kind = "Timeout"

\* C4: with at least one class selected, generate returns a password of
\* length max(8, min(128, requested)) that has a character of every selected
\* class and only characters of selected classes.
C4_Generated ==
    LET selected == {k \in Flags : Get(data, k, TRUE)}
        requested == Get(data, "length", 16)
        L == IF requested < 8 THEN 8 ELSE IF requested > 128 THEN 128
                                     ELSE requested
    IN  (Generated /\ selected # {}) =>
           /\ resp.status = 200
           /\ Len(resp.password) = L
           /\ L >= Cardinality(selected) =>
                 \A k \in selected :
                    \E i \in DOMAIN resp.password :
                       resp.password[i] \in ClassSets[k]
           /\ \A i \in DOMAIN resp.password :
                 \E k \in selected : resp.password[i] \in ClassSets[k]

C4_Witness ==
    /\ Generated
    /\ DOMAIN data = Flags \cup {"length"}
    /\ data.length > 128
    /\ data.uppercase /\ data.lowercase /\ data.numbers /\ ~ data.symbols
    /\ rnd.step > 0
    /\ Len(resp.password) = 128

\* C5: generate with the four class flags false answers 400 with an error
\* message and no password, whatever the length, and draws no random
\* character.
C5_InvalidConfig ==
    (Generated /\ \A k \in Flags : k \in DOMAIN data /\ ~ data[k]) =>
       /\ resp.status = 400
       /\ DOMAIN resp = {"status", "error"}
       /\ resp.error = "Select at least one character type"
       /\ draws = 0

C5_Witness ==
    /\ Generated
    /\ \A k \in Flags : k \in DOMAIN data /\ ~ data[k]
    /\ "length" \in DOMAIN data
    /\ data.length = 12
    /\ resp.status = 400

\* the request that carries nothing but the first 5 hex digits of the hash
PrefixRequest(password) ==
    [method |-> "GET",
     url |-> <<"https://api.pwnedpasswords.com/range/",
               SubSeq(Sha1Password(password), 1, 5)>>,
     timeout |-> 5]

\* C6 as stated: every outbound request of analyze carries exactly the
\* 5-digit hash prefix, any two passwords whose hashes share the prefix
\* cause identical outbound traffic, and generate sends nothing.
C6_AnySamePrefix ==
    pc = "done" =>
       /\ op = "generate" => outbound = <<>>
       /\ op = "analyze" =>
             /\ \A i \in DOMAIN outbound : outbound[i] = PrefixRequest(Pw)
             /\ (prev.seen /\ prev.head = HeadOf(Pw)) =>
                   outbound = prev.traffic

\* C6, amended: every outbound request of analyze carries exactly the
\* 5-digit hash prefix, an empty or missing password causes no request, any
\* two non-empty passwords whose hashes share the prefix cause identical
\* outbound traffic, and generate sends nothing.
C6_PrefixOnly ==
    pc = "done" =>
       /\ op = "generate" => outbound = <<>>
       /\ op = "analyze" =>
             /\ \A i \in DOMAIN outbound : outbound[i] = PrefixRequest(Pw)
             /\ Pw = <<>> => outbound = <<>>
             /\ (prev.seen /\ ~ prev.empty /\ Pw # <<>>
                 /\ prev.head = HeadOf(Pw)) =>
                   outbound = prev.traffic

C6_Witness ==
    /\ Analysed
    /\ prev.seen
    /\ ~ prev.empty
    /\ Pw # <<>>
    /\ prev.head = HeadOf(Pw)
    /\ Len(outbound) = 1

\* C7: the level is "Empty" exactly for a missing or empty password, whose
\* report is all zero with no suggestions; otherwise it is Weak below 40,
\* Moderate from 40 below 75, and Strong from 75, of the final score.
C7_Level ==
    (Analysed /\ resp.status = 200) =>
       /\ resp.level = "Empty" <=> Pw = <<>>
       /\ Pw = <<>> =>
             /\ resp.score = 0
             /\ resp.entropy = 0
             /\ ~ resp.breached
             /\ resp.breach_count = 0
             /\ resp.suggestions = <<>>
       /\ Pw # <<>> =>
             /\ resp.score < 40 => resp.level = "Weak"
             /\ (40 <= resp.score /\ resp.score < 75) =>
                   resp.level = "Moderate"
             /\ resp.score >= 75 => resp.level = "Strong"

C7_Witness ==
    /\ Analysed
    /\ resp.status = 200
    /\ resp.score = 40
    /\ resp.level = "Moderate"

\* the place of a suggestion in the fixed order
Rank(s) ==
    IF Len(s) = 3 THEN 0
    ELSE IF s \in {SuggestLength12, SuggestLonger} THEN 1
    ELSE IF s = SuggestLower THEN 2
    ELSE IF s = SuggestUpper THEN 3
    ELSE IF s = SuggestDigit THEN 4
    ELSE 5

Suggested(s) == \E i \in DOMAIN resp.suggestions : resp.suggestions[i] = s

\* C8: the suggestions are ordered breach warning, length, lowercase,
\* uppercase, digit, symbol; the warning is there iff breached, a length
\* suggestion iff the length is below 12, a class suggestion iff the class
\* is absent from the password.
C8_Order ==
    (Analysed /\ resp.status = 200 /\ Pw # <<>>) =>
       LET sg == resp.suggestions
       IN  /\ \A i \in 1..(Len(sg) - 1) : Rank(sg[i]) < Rank(sg[i + 1])
           /\ \A i \in DOMAIN sg :
                 Rank(sg[i]) = 0 => sg[i] = BreachWarning(resp.breach_count)
           /\ (\E i \in DOMAIN sg : Rank(sg[i]) = 0) <=> resp.breached
           /\ (\E i \in DOMAIN sg : Rank(sg[i]) = 1) <=> Len(Pw) < 12
           /\ Suggested(SuggestLower) <=> "lowercase" \notin ClassesIn(Pw)
           /\ Suggested(SuggestUpper) <=> "uppercase" \notin ClassesIn(Pw)
           /\ Suggested(SuggestDigit) <=> "numbers" \notin ClassesIn(Pw)
           /\ Suggested(SuggestSymbol) <=> "symbols" \notin ClassesIn(Pw)

C8_Witness ==
    /\ Analysed
    /\ resp.status = 200
    /\ resp.breached
    /\ Len(Pw) \in 8..11
    /\ ClassesIn(Pw) = {"numbers"}
    /\ Len(resp.suggestions) = 5

\* C9: the score of a non-empty, non-breached password is
\* min(100, length points + 15 per class present + entropy bonus); all four
\* classes, length >= 12 and entropy > 80 give exactly 100.
C9_Score ==
    (Analysed /\ resp.status = 200 /\ Pw # <<>> /\ ~ resp.breached) =>
       LET n == Len(Pw)
           present == ClassesIn(Pw)
           pool == (IF "lowercase" \in present THEN 26 ELSE 0)
                   + (IF "uppercase" \in present THEN 26 ELSE 0)
                   + (IF "numbers" \in present THEN 10 ELSE 0)
                   + (IF "symbols" \in present THEN 32 ELSE 0)
           bits == IF pool = 0 THEN 0 ELSE n * Log2Micro(pool)
           lengthPoints == CASE n < 8 -> 0
                             [] 8 <= n /\ n < 12 -> 15
                             [] n >= 12 -> 25
           entropyBonus == CASE bits > 80000000 -> 15
                             [] 50000000 < bits /\ bits <= 80000000 -> 5
                             [] bits <= 50000000 -> 0
           sum == lengthPoints + 15 * Cardinality(present) + entropyBonus
       IN  /\ resp.score = (IF sum > 100 THEN 100 ELSE sum)
           /\ (present = Flags /\ n >= 12 /\ bits > 80000000) =>
                 resp.score = 100

C9_Witness ==
    /\ Analysed
    /\ resp.status = 200
    /\ ~ resp.breached
    /\ ClassesIn(Pw) = Flags
    /\ Len(Pw) >= 13
    /\ resp.score = 100

\* C10 as stated: for every non-empty password the pool is at least 10 and
\* the entropy is positive.
C10_PoolNeverZero ==
    (Analysed /\ Pw # <<>>) =>
       /\ PoolSize(Pw) >= 10
       /\ resp.status = 200 => resp.entropy > 0

\* C10, amended: the pool is 0, and the entropy 0, exactly for a password
\* without any lowercase, uppercase, digit or punctuation character (the
\* empty password, or one of spaces only); every other password has a pool
\* of at least 10 and the entropy length * log2(pool) > 0.
C10_PoolZeroIffNoClass ==
    (Analysed /\ resp.status = 200) =>
       /\ ClassesIn(Pw) # {} =>
             /\ PoolSize(Pw) >= 10
             /\ resp.entropy > 0
             /\ resp.entropy = Round2(Len(Pw) * Log2Micro(PoolSize(Pw)))
       /\ ClassesIn(Pw) = {} => (PoolSize(Pw) = 0 /\ resp.entropy = 0)

C10_Witness ==
    /\ Analysed
    /\ resp.status = 200
    /\ Pw # <<>>
    /\ ClassesIn(Pw) = {}
    /\ resp.entropy = 0

=============================================================================
